---- MODULE Spec2Model ----
(***************************************************************************)
(* The GTFS data lifecycle of gtfs_skane: GTFSDataManager (gtfs_data.py),  *)
(* the update entity that triggers it (update.py) and the set-up fetch     *)
(* download_gtfs_data (__init__.py), over a data directory that holds      *)
(* {area}.zip, {area}.sqlite and metadata.json.                            *)
(*                                                                         *)
(* A Python Optional is a sequence of length at most one: <<>> is None.    *)
(* A coroutine is cut at its awaits: pc names the await it is parked at.   *)
(***************************************************************************)
EXTENDS Integers, Sequences, FiniteSets, TLC

VARIABLES
    epoch,      \* number of GTFSDataManager objects constructed after the first
    state,      \* _state["state"]
    progress,   \* _state["progress"]
    error,      \* _state["error"]
    metadata,   \* _metadata, the in-memory RunMetadata dict
    metaFile,   \* metadata.json on disk
    zip,        \* {area}.zip on disk
    db,         \* {area}.sqlite on disk
    pc,         \* where the running coroutine is parked
    attempt,    \* loop variable of _download_with_retry
    outcomes,   \* outcome of each _download_gtfs_zip call of the current run
    delays,     \* argument of each asyncio.sleep call of the current run
    done,       \* phases of the current run that returned without raising
    saved,      \* what _save_metadata did in the current run
    raised,     \* the exception update_data let escape to its caller
    errFrom,    \* lifecycle states this manager left for "error"
    started,    \* the clock when the current run was triggered
    clock,      \* the wall clock read by datetime.now()
    seen,       \* what the last GTFSBackend call found at db_path
    pc2,        \* where a second update_data coroutine is parked
    stopTimes,      \* the store's stop_times rows
    calendarDates,  \* the store's calendar_dates rows
    utcNow,         \* the SQL engine's 'now', minutes since day 0, 00:00 UTC
    tzOffset,       \* minutes the host's local time is ahead of UTC
    stopId,         \* GTFSBackend._stop_id
    wanted,         \* the route and direction the caller wants departures of
    queried,        \* get_next_departure has returned
    departures,     \* what get_next_departure returned
    stop,           \* GTFSBackend._stop
    routes,         \* GTFSBackend._routes
    activeRoutes,   \* GTFSBackend._active_routes
    resolved,       \* number of set_stop_info calls that returned
    stateSnap,      \* a dict a caller got from get_state()
    metaSnap,       \* a dict a caller got from get_metadata()
    indexes         \* what _create_indexes did in the current run

pipelineVars ==
    <<epoch, state, progress, error, metadata, metaFile, zip, db, pc,
      attempt, outcomes, delays, done, saved, raised, errFrom, started,
      clock>>

readerVars == <<seen, pc2>>

backendVars ==
    <<stopTimes, calendarDates, utcNow, tzOffset, stopId, wanted, queried,
      departures, stop, routes, activeRoutes, resolved>>

snapVars == <<stateSnap, metaSnap>>

otherVars == <<snapVars, indexes>>

vars == <<pipelineVars, readerVars, backendVars, otherVars>>

----------------------------------------------------------------------------
(* Bounds of the model *)

MaxClock == 1
MaxRestarts == 1

----------------------------------------------------------------------------
(* Program constants *)

MAX_DOWNLOAD_RETRIES == 3
RETRY_DELAYS == <<5, 15, 30>>

BytesPerMB == 1048576

RequiredTables ==
    {"agency", "stops", "routes", "trips", "stop_times", "calendar_dates"}

\* required_tables is a list: the emptiness check visits it in this order
RequiredOrder ==
    <<"agency", "stops", "routes", "trips", "stop_times", "calendar_dates">>

None == <<>>
Some(v) == <<v>>

----------------------------------------------------------------------------
(* Time: datetime.now() is a naive datetime with a microsecond field. The  *)
(* clock counts half seconds.                                              *)

Now == [sec |-> clock \div 2, usec |-> (clock % 2) * 500000]

\* datetime.isoformat(): the fraction is written only when microsecond # 0
IsoFormat(dt) ==
    IF dt.usec = 0 THEN <<dt.sec>> ELSE <<dt.sec, dt.usec>>

\* datetime.fromisoformat(): a missing fraction reads as microsecond 0
FromIsoFormat(s) ==
    [sec |-> s[1], usec |-> IF Len(s) = 1 THEN 0 ELSE s[2]]

----------------------------------------------------------------------------
(* Store size. A float with one decimal is held as its number of tenths.   *)

\* round(x, 1) of x = bytes / (1024 * 1024): to the nearest tenth, an exact
\* tie going to the even tenth
\* (variant: the tenths cut off instead of rounded)
RoundTenths_Truncating(bytes) == (bytes * 10) \div BytesPerMB

RoundTenths(bytes) ==
    LET q == (bytes * 10) \div BytesPerMB
        r == (bytes * 10) % BytesPerMB
    IN  IF 2 * r > BytesPerMB THEN q + 1
        ELSE IF 2 * r < BytesPerMB THEN q
        ELSE IF q % 2 = 0 THEN q ELSE q + 1

\* json.dump of that float writes "<whole>.<digit>"; json.load reads it back
JsonDumpFloat(t) == <<t \div 10, t % 10>>
JsonLoadFloat(txt) == txt[1] * 10 + txt[2]

----------------------------------------------------------------------------
(* Files *)

NoDb == [exists |-> FALSE, tables |-> {}, nonempty |-> {}, size |-> 0]

Store(tables, nonempty, size) ==
    [exists |-> TRUE, tables |-> tables, nonempty |-> nonempty, size |-> size]

\* database_exists()
DatabaseExists == db.exists

EmptyDict == [last_download |-> None, db_size_mb |-> None]

NoMetaFile == [exists |-> FALSE, valid |-> FALSE, data |-> EmptyDict]
BrokenMetaFile == [exists |-> TRUE, valid |-> FALSE, data |-> EmptyDict]
MetaFileOf(json) == [exists |-> TRUE, valid |-> TRUE, data |-> json]

\* _load_metadata
LoadMetadata(f) ==
    IF ~f.exists THEN EmptyDict
    ELSE IF ~f.valid THEN EmptyDict
    ELSE [last_download |-> IF f.data.last_download = None THEN None
                            ELSE Some(FromIsoFormat(f.data.last_download[1])),
          db_size_mb |-> IF f.data.db_size_mb = None THEN None
                         ELSE Some(JsonLoadFloat(f.data.db_size_mb[1]))]

\* the dict _save_metadata hands to json.dump
ToJson(m) ==
    [last_download |-> IF m.last_download = None THEN None
                       ELSE Some(IsoFormat(m.last_download[1])),
     db_size_mb |-> IF m.db_size_mb = None THEN None
                    ELSE Some(JsonDumpFloat(m.db_size_mb[1]))]

SaveOutcomes == {"written", "open_failed", "write_failed"}

\* _save_metadata: every exception is logged and swallowed. open(..., "w")
\* failing leaves the file as it was; a write failing after the open leaves
\* it truncated.
SaveMetadata(f, m, how) ==
    CASE how = "written" -> MetaFileOf(ToJson(m))
      [] how = "open_failed" -> f
      [] how = "write_failed" -> BrokenMetaFile

\* get_state(), get_metadata()
GetState == [state |-> state, progress |-> progress, error |-> error]
GetMetadata == metadata

----------------------------------------------------------------------------
(* Exceptions *)

Exc(type, text, n) == [type |-> type, text |-> text, n |-> n]

\* str(err)
Str(e) == [text |-> e.text, n |-> e.n]

\* _download_with_retry, line 162: RETRY_DELAYS[attempt], a 0-based index
\* (variant: the index one too far)
RetryDelay_OffByOne(a) == RETRY_DELAYS[a + 2]

RetryDelay(a) == RETRY_DELAYS[a + 1]

\* _download_with_retry, lines 167-169
\* (variant: the message carries the loop index, not the count)
DownloadExhausted_CarriesIndex ==
    Exc("HomeAssistantError", "Failed to download GTFS data after N attempts",
        MAX_DOWNLOAD_RETRIES - 1)

DownloadExhausted ==
    Exc("HomeAssistantError", "Failed to download GTFS data after N attempts",
        MAX_DOWNLOAD_RETRIES)

----------------------------------------------------------------------------
(* Outcomes of the collaborators the pipeline calls *)

\* One _download_gtfs_zip call: the GET fails before any response, the status
\* is not 200, the body breaks off after the file was opened, or all is read.
AttemptOutcomes == {"ok", "connect_error", "http_status", "stream_error"}

\* {area}.zip after one _download_gtfs_zip call: open(zip_path, "wb") is
\* reached only on status 200, and nothing removes what was written
ZipAfterAttempt(z, o) ==
    CASE o = "ok" -> "complete"
      [] o = "stream_error" -> "partial"
      [] OTHER -> z

\* File sizes in bytes the converted store is sampled from
SizeSamples == {157287, 262144, 786432}

\* What pygtfs.Schedule(db_path) leaves on disk: the schema, no rows
SchemaOnly == Store(RequiredTables, {}, 157287)

\* What pygtfs.append_feed may leave on disk when it returns
FeedResults ==
    { Store(RequiredTables, RequiredTables, sz) : sz \in SizeSamples }
    \cup { Store(RequiredTables, RequiredTables \ {"calendar_dates"}, 157287),
           Store(RequiredTables \ {"calendar_dates"},
                 RequiredTables \ {"calendar_dates"}, 157287) }

\* What it may leave when it raises part-way
FeedWrecks ==
    { SchemaOnly, Store(RequiredTables, {"agency", "stops"}, 157287) }

\* (variant: the row counts are not looked at)
ValidationError_SkippingRows(d) ==
    IF ~d.exists
    THEN Some(Exc("HomeAssistantError", "Database file not created", 0))
    ELSE IF RequiredTables \ d.tables # {}
    THEN Some(Exc("HomeAssistantError", "Database missing required tables",
                  Cardinality(RequiredTables \ d.tables)))
    ELSE None

\* _validate_data._validate: the exception it raises, or None
ValidationError(d) ==
    IF ~d.exists
    THEN Some(Exc("HomeAssistantError", "Database file not created", 0))
    ELSE IF RequiredTables \ d.tables # {}
    THEN Some(Exc("HomeAssistantError", "Database missing required tables",
                  Cardinality(RequiredTables \ d.tables)))
    ELSE LET empties == { i \in 1..Len(RequiredOrder) :
                            RequiredOrder[i] \notin d.nonempty }
         IN  IF empties # {}
             THEN Some(Exc("HomeAssistantError", "Table is empty",
                           CHOOSE i \in empties : \A j \in empties : i <= j))
             ELSE None

----------------------------------------------------------------------------
(* Initial state: a GTFSDataManager freshly constructed on a data directory *)
(* that earlier runs may have left files in.                                *)

OldStore == Store(RequiredTables, RequiredTables, 262144)

OldJson == ToJson([last_download |-> Some([sec |-> 0, usec |-> 0]),
                   db_size_mb |-> Some(2)])

Quiet == {"ready", "returned", "raised", "fetch_ok", "fetch_failed"}

\* GTFSDataManager.__init__, lines 27-49, over the data directory it finds
PipelineInit ==
    /\ epoch = 0
    /\ state = "idle"
    /\ progress = None
    /\ error = None
    /\ metaFile \in {NoMetaFile, BrokenMetaFile, MetaFileOf(OldJson)}
    /\ metadata = LoadMetadata(metaFile)
    /\ zip \in {"absent", "complete"}
    /\ db \in {NoDb, OldStore}
    /\ pc = "ready"
    /\ attempt = 0
    /\ outcomes = <<>>
    /\ delays = <<>>
    /\ done = {}
    /\ saved = "none"
    /\ raised = None
    /\ errFrom = {}
    /\ started = 0
    /\ clock = 0

\* _create_indexes was not called
NoIndexes == [tried |-> {}, failed |-> {}, created |-> {}, raised |-> FALSE]

\* no GTFSBackend call was made and update_data was not called twice
NoReader ==
    /\ seen = "none"
    /\ pc2 = "none"
    /\ stateSnap = [kind |-> "none",
                    value |-> [state |-> "idle", progress |-> None,
                               error |-> None]]
    /\ metaSnap = [kind |-> "none", value |-> EmptyDict]
    /\ indexes = NoIndexes

\* GTFSBackend.__init__, lines 30-37
BackendFresh ==
    /\ queried = FALSE
    /\ departures = None
    /\ stop = None
    /\ routes = <<>>
    /\ activeRoutes = <<>>
    /\ resolved = 0

\* the route the departure query names, gtfs_backend.py line 102
HardcodedRoute == "9011012001600000"

\* no sensor is configured: the store is never queried
NoBackend ==
    /\ stopTimes = {}
    /\ calendarDates = {}
    /\ utcNow = 0
    /\ tzOffset = 0
    /\ stopId = "S"
    /\ wanted = [route |-> HardcodedRoute, direction |-> 1]
    /\ BackendFresh

Init ==
    /\ PipelineInit
    /\ NoReader
    /\ NoBackend

----------------------------------------------------------------------------
(* update_data: the except clause, lines 134-139 *)

\* (variant: the state goes back to idle)
ExceptHandler_ResetsToIdle(e) ==
    /\ state' = "idle"
    /\ error' = Some(Str(e))
    /\ progress' = None
    /\ raised' = Some(e)
    /\ errFrom' = errFrom \cup {state}
    /\ pc' = "raised"

\* (variant: progress is not cleared)
ExceptHandler_KeepsProgress(e) ==
    /\ state' = "error"
    /\ error' = Some(Str(e))
    /\ progress' = progress
    /\ raised' = Some(e)
    /\ errFrom' = errFrom \cup {state}
    /\ pc' = "raised"

ExceptHandler(e) ==
    /\ state' = "error"
    /\ error' = Some(Str(e))
    /\ progress' = None
    /\ raised' = Some(e)
    /\ errFrom' = errFrom \cup {state}
    /\ pc' = "raised"

\* update_data, lines 102-105: step 2 is entered once _cleanup_old_data returned
EnterDownload ==
    /\ progress' = Some(25)
    /\ done' = done \cup {"cleanup"}
    /\ pc' = "download"

----------------------------------------------------------------------------
(* update_data, lines 94-100, as async_install calls it: the run starts and *)
(* goes as far as the first await of _cleanup_old_data.                     *)

\* (variant: the error of the run before is not cleared)
Trigger_KeepsError ==
    /\ pc \in Quiet
    /\ state' = "downloading"
    /\ error' = error
    /\ attempt' = 0
    /\ outcomes' = <<>>
    /\ delays' = <<>>
    /\ saved' = "none"
    /\ raised' = None
    /\ started' = clock
    /\ IF db.exists
       THEN progress' = Some(0) /\ done' = {} /\ pc' = "cleanup_db"
       ELSE IF zip # "absent"
       THEN progress' = Some(0) /\ done' = {} /\ pc' = "cleanup_zip"
       ELSE progress' = Some(25) /\ done' = {"cleanup"} /\ pc' = "download"
    /\ UNCHANGED <<epoch, metadata, metaFile, zip, db, errFrom, clock>>
    /\ UNCHANGED <<readerVars, backendVars, otherVars>>

Trigger ==
    /\ pc \in Quiet
    /\ state' = "downloading"
    /\ error' = None
    /\ attempt' = 0
    /\ outcomes' = <<>>
    /\ delays' = <<>>
    /\ saved' = "none"
    /\ raised' = None
    /\ started' = clock
    /\ IF db.exists
       THEN progress' = Some(0) /\ done' = {} /\ pc' = "cleanup_db"
       ELSE IF zip # "absent"
       THEN progress' = Some(0) /\ done' = {} /\ pc' = "cleanup_zip"
       ELSE progress' = Some(25) /\ done' = {"cleanup"} /\ pc' = "download"
    /\ UNCHANGED <<epoch, metadata, metaFile, zip, db, errFrom, clock>>
    /\ UNCHANGED <<readerVars, backendVars, otherVars>>

\* (variant: the old database is left where it is)
CleanupDb_LeavesStore ==
    /\ pc = "cleanup_db"
    /\ IF zip # "absent"
       THEN pc' = "cleanup_zip" /\ UNCHANGED <<progress, done>>
       ELSE EnterDownload
    /\ UNCHANGED <<state, error, raised, errFrom, db>>
    /\ UNCHANGED <<epoch, metadata, metaFile, zip, attempt, outcomes, delays,
                   saved, started, clock>>
    /\ UNCHANGED <<readerVars, backendVars, otherVars>>

\* _cleanup_old_data, lines 143-145: db_path.unlink in the executor
CleanupDb ==
    /\ pc = "cleanup_db"
    /\ \E ok \in BOOLEAN :
         IF ok
         THEN /\ db' = NoDb
              /\ IF zip # "absent"
                 THEN pc' = "cleanup_zip" /\ UNCHANGED <<progress, done>>
                 ELSE EnterDownload
              /\ UNCHANGED <<state, error, raised, errFrom>>
         ELSE /\ ExceptHandler(Exc("OSError", "unlink database", 0))
              /\ UNCHANGED <<db, done>>
    /\ UNCHANGED <<epoch, metadata, metaFile, zip, attempt, outcomes, delays,
                   saved, started, clock>>
    /\ UNCHANGED <<readerVars, backendVars, otherVars>>

\* _cleanup_old_data, lines 147-149: zip_path.unlink in the executor
CleanupZip ==
    /\ pc = "cleanup_zip"
    /\ \E ok \in BOOLEAN :
         IF ok
         THEN /\ zip' = "absent"
              /\ EnterDownload
              /\ UNCHANGED <<state, error, raised, errFrom>>
         ELSE /\ ExceptHandler(Exc("OSError", "unlink zip", 0))
              /\ UNCHANGED <<zip, done>>
    /\ UNCHANGED <<epoch, metadata, metaFile, db, attempt, outcomes, delays,
                   saved, started, clock>>
    /\ UNCHANGED <<readerVars, backendVars, otherVars>>

\* _download_with_retry, lines 153-169: one pass of the loop body, from the
\* call of _download_gtfs_zip to the sleep, the return or the final raise
DownloadAttempt ==
    /\ pc = "download"
    /\ \E o \in AttemptOutcomes :
         /\ outcomes' = Append(outcomes, o)
         /\ zip' = ZipAfterAttempt(zip, o)
         /\ IF o = "ok"
            THEN /\ state' = "converting"
                 /\ progress' = Some(50)
                 /\ done' = done \cup {"download"}
                 /\ pc' = "convert"
                 /\ UNCHANGED <<error, raised, errFrom, delays>>
            ELSE IF attempt < MAX_DOWNLOAD_RETRIES - 1
            THEN /\ delays' = Append(delays, RetryDelay(attempt))
                 /\ pc' = "sleep"
                 /\ UNCHANGED <<state, progress, error, raised, errFrom, done>>
            ELSE /\ ExceptHandler(DownloadExhausted)
                 /\ UNCHANGED <<delays, done>>
    /\ UNCHANGED <<epoch, metadata, metaFile, db, attempt, saved, started,
                   clock>>
    /\ UNCHANGED <<readerVars, backendVars, otherVars>>

\* asyncio.sleep(delay) returns and the for loop takes its next value
RetryAfterSleep ==
    /\ pc = "sleep"
    /\ attempt' = attempt + 1
    /\ pc' = "download"
    /\ UNCHANGED <<epoch, state, progress, error, metadata, metaFile, zip, db,
                   outcomes, delays, done, saved, raised, errFrom, started,
                   clock>>
    /\ UNCHANGED <<readerVars, backendVars, otherVars>>

\* _convert_to_sqlite._convert, line 201: pygtfs.Schedule opens the store
ConvertOpen ==
    /\ pc = "convert"
    /\ \E ok \in BOOLEAN :
         IF ok
         THEN /\ db' = SchemaOnly
              /\ pc' = "convert_feed"
              /\ UNCHANGED <<state, progress, error, raised, errFrom>>
         ELSE /\ ExceptHandler(Exc("Exception", "cannot open store", 0))
              /\ UNCHANGED db
    /\ UNCHANGED <<epoch, metadata, metaFile, zip, attempt, outcomes, delays,
                   done, saved, started, clock>>
    /\ UNCHANGED <<readerVars, backendVars, otherVars>>

\* _convert_to_sqlite._convert, lines 202-208, then update_data lines 113-116
ConvertFeed ==
    /\ pc = "convert_feed"
    /\ \/ \E r \in FeedResults :
            /\ db' = r
            /\ state' = "validating"
            /\ progress' = Some(90)
            /\ done' = done \cup {"convert"}
            /\ pc' = "validate"
            /\ UNCHANGED <<error, raised, errFrom>>
       \/ \E w \in FeedWrecks :
            /\ db' = w
            /\ ExceptHandler(Exc("Exception", "feed conversion failed", 0))
            /\ UNCHANGED done
    /\ UNCHANGED <<epoch, metadata, metaFile, zip, attempt, outcomes, delays,
                   saved, started, clock>>
    /\ UNCHANGED <<readerVars, backendVars, otherVars>>

\* _validate_data, lines 241-283: the executor job
\* (variant: last_download is stamped before the checks)
Validate_StampsBeforeChecking ==
    /\ pc = "validate"
    /\ metadata' = [metadata EXCEPT !.last_download = Some(Now)]
    /\ IF ValidationError(db) = None
       THEN /\ done' = done \cup {"validate"}
            /\ pc' = "finish"
            /\ UNCHANGED <<state, progress, error, raised, errFrom>>
       ELSE /\ ExceptHandler(ValidationError(db)[1])
            /\ UNCHANGED done
    /\ UNCHANGED <<epoch, metaFile, zip, db, attempt, outcomes, delays, saved,
                   started, clock>>
    /\ UNCHANGED <<readerVars, backendVars, otherVars>>

Validate ==
    /\ pc = "validate"
    /\ IF ValidationError(db) = None
       THEN /\ done' = done \cup {"validate"}
            /\ pc' = "finish"
            /\ UNCHANGED <<state, progress, error, raised, errFrom>>
       ELSE /\ ExceptHandler(ValidationError(db)[1])
            /\ UNCHANGED done
    /\ UNCHANGED <<epoch, metadata, metaFile, zip, db, attempt, outcomes,
                   delays, saved, started, clock>>
    /\ UNCHANGED <<readerVars, backendVars, otherVars>>

\* update_data, lines 119-132: no await in here, so it is one step. stat()
\* and zip_path.unlink() may raise OSError; _save_metadata never raises.
\* (variant: progress is left at 90)
Finish_ProgressLeft ==
    /\ pc = "finish"
    /\ \E statOk \in BOOLEAN, how \in SaveOutcomes, unlinkOk \in BOOLEAN :
         LET stamped == [metadata EXCEPT !.last_download = Some(Now)]
             sized == [stamped EXCEPT !.db_size_mb = Some(RoundTenths(db.size))]
         IN  IF ~statOk
             THEN /\ metadata' = stamped
                  /\ ExceptHandler(Exc("OSError", "stat database", 0))
                  /\ UNCHANGED <<metaFile, zip, saved>>
             ELSE /\ metadata' = sized
                  /\ metaFile' = SaveMetadata(metaFile, sized, how)
                  /\ saved' = how
                  /\ IF zip # "absent" /\ ~unlinkOk
                     THEN /\ ExceptHandler(Exc("OSError", "unlink zip", 0))
                          /\ UNCHANGED zip
                     ELSE /\ zip' = "absent"
                          /\ state' = "idle"
                          /\ pc' = "returned"
                          /\ UNCHANGED <<progress, error, raised, errFrom>>
    /\ UNCHANGED <<epoch, db, attempt, outcomes, delays, done, started, clock>>
    /\ UNCHANGED <<readerVars, backendVars, otherVars>>

Finish ==
    /\ pc = "finish"
    /\ \E statOk \in BOOLEAN, how \in SaveOutcomes, unlinkOk \in BOOLEAN :
         LET stamped == [metadata EXCEPT !.last_download = Some(Now)]
             sized == [stamped EXCEPT !.db_size_mb = Some(RoundTenths(db.size))]
         IN  IF ~statOk
             THEN /\ metadata' = stamped
                  /\ ExceptHandler(Exc("OSError", "stat database", 0))
                  /\ UNCHANGED <<metaFile, zip, saved>>
             ELSE /\ metadata' = sized
                  /\ metaFile' = SaveMetadata(metaFile, sized, how)
                  /\ saved' = how
                  /\ IF zip # "absent" /\ ~unlinkOk
                     THEN /\ ExceptHandler(Exc("OSError", "unlink zip", 0))
                          /\ UNCHANGED zip
                     ELSE /\ zip' = "absent"
                          /\ state' = "idle"
                          /\ progress' = Some(100)
                          /\ pc' = "returned"
                          /\ UNCHANGED <<error, raised, errFrom>>
    /\ UNCHANGED <<epoch, db, attempt, outcomes, delays, done, started, clock>>
    /\ UNCHANGED <<readerVars, backendVars, otherVars>>

----------------------------------------------------------------------------
(* The process restarts: GTFSDataManager.__init__, lines 41-51, on the same *)
(* data directory. Whatever coroutine was running is gone with the process. *)

Restart ==
    /\ epoch < MaxRestarts
    /\ epoch' = epoch + 1
    /\ state' = "idle"
    /\ progress' = None
    /\ error' = None
    /\ metadata' = LoadMetadata(metaFile)
    /\ pc' = "ready"
    /\ attempt' = 0
    /\ outcomes' = <<>>
    /\ delays' = <<>>
    /\ done' = {}
    /\ saved' = "none"
    /\ raised' = None
    /\ errFrom' = {}
    /\ started' = 0
    /\ UNCHANGED <<metaFile, zip, db, clock>>
    /\ UNCHANGED <<readerVars, backendVars, otherVars>>

\* Time passes
Tick ==
    /\ clock < MaxClock
    /\ clock' = clock + 1
    /\ UNCHANGED <<epoch, state, progress, error, metadata, metaFile, zip, db,
                   pc, attempt, outcomes, delays, done, saved, raised, errFrom,
                   started>>
    /\ UNCHANGED <<readerVars, backendVars, otherVars>>

----------------------------------------------------------------------------
(* async_setup_entry, lines 68-75, and download_gtfs_data, lines 93-120:    *)
(* the fetch the integration makes at set-up when {area}.zip is not there.  *)

\* "except Exception" catches the HTTP and transport errors; a cancelled
\* task raises asyncio.CancelledError, a BaseException, which it lets pass
CaughtByExceptException(kind) ==
    kind \in {"http_status", "connect_error", "stream_error"}

\* lines 116-120: the destination after the fetch failed with `kind`
DestinationAfterFailure(z, kind) ==
    IF CaughtByExceptException(kind) /\ z # "absent" THEN "absent" ELSE z

\* lines 103-110: the request, the status check, open(destination, "wb")
SetupFetchBegin ==
    /\ pc \in Quiet
    /\ zip = "absent"
    /\ \/ /\ zip' = "partial"
          /\ pc' = "fetch_stream"
       \/ \E kind \in {"http_status", "connect_error", "cancelled"} :
            /\ zip' = DestinationAfterFailure(zip, kind)
            /\ pc' = "fetch_failed"
    /\ UNCHANGED <<epoch, state, progress, error, metadata, metaFile, db,
                   attempt, outcomes, delays, done, saved, raised, errFrom, started,
                   clock>>
    /\ UNCHANGED <<readerVars, backendVars, otherVars>>

\* lines 111-114: the chunks are written; the body ends, breaks off, or the
\* task is cancelled while it waits for a chunk
SetupFetchStream ==
    /\ pc = "fetch_stream"
    /\ \/ /\ zip' = "complete"
          /\ pc' = "fetch_ok"
       \/ \E kind \in {"stream_error", "cancelled"} :
            /\ zip' = DestinationAfterFailure("partial", kind)
            /\ pc' = "fetch_failed"
    /\ UNCHANGED <<epoch, state, progress, error, metadata, metaFile, db,
                   attempt, outcomes, delays, done, saved, raised, errFrom, started,
                   clock>>
    /\ UNCHANGED <<readerVars, backendVars, otherVars>>

----------------------------------------------------------------------------

Next ==
    \/ Trigger
    \/ CleanupDb
    \/ CleanupZip
    \/ DownloadAttempt
    \/ RetryAfterSleep
    \/ ConvertOpen
    \/ ConvertFeed
    \/ Validate
    \/ Finish
    \/ Restart
    \/ Tick
    \/ SetupFetchBegin
    \/ SetupFetchStream

Spec == Init /\ [][Next]_vars

----------------------------------------------------------------------------
(* The validator over every shape of store: update_data is parked at the    *)
(* await of _validate_data, line 117, and the store pygtfs left may have    *)
(* any subset of the required tables, any subset of those with rows.        *)

StoreShapes ==
    {NoDb} \cup { Store(t, n, 157287) : <<t, n>> \in
                    { tn \in (SUBSET RequiredTables) \X (SUBSET RequiredTables) :
                        tn[2] \subseteq tn[1] } }

InitValidate ==
    /\ epoch = 0
    /\ state = "validating"
    /\ progress = Some(90)
    /\ error = None
    /\ metaFile \in {NoMetaFile, MetaFileOf(OldJson)}
    /\ metadata = LoadMetadata(metaFile)
    /\ zip = "complete"
    /\ db \in StoreShapes
    /\ pc = "validate"
    /\ attempt = 0
    /\ outcomes = <<"ok">>
    /\ delays = <<>>
    /\ done = {"cleanup", "download", "convert"}
    /\ saved = "none"
    /\ raised = None
    /\ errFrom = {}
    /\ started = 0
    /\ clock = 0
    /\ NoReader
    /\ NoBackend

NextValidate ==
    \/ Validate
    \/ Finish

SpecValidate == InitValidate /\ [][NextValidate]_vars

----------------------------------------------------------------------------
(* Callers that do not wait for a run to end: a GTFSBackend query that      *)
(* opens the store while update_data is parked at an await, and a second    *)
(* async_install call. Neither update_data nor async_install takes a lock   *)
(* or looks at the state before starting.                                   *)

\* what a query finds at db_path
StoreView(d) ==
    IF ~d.exists THEN "missing"
    ELSE IF ValidationError(d) = None THEN "complete"
    ELSE "incomplete"

\* sqlite3.connect on a path that does not exist creates an empty file there
EmptyFile == Store({}, {}, 0)

\* get_next_departure, lines 95-125, and set_stop_info, lines 178-187: the
\* store is opened as it is at that moment
ReadStore ==
    /\ seen' = StoreView(db)
    /\ db' = IF db.exists THEN db ELSE EmptyFile
    /\ UNCHANGED <<epoch, state, progress, error, metadata, metaFile, zip,
                   pc, attempt, outcomes, delays, done, saved, raised,
                   errFrom, started, clock, pc2, backendVars, otherVars>>

\* update_data, lines 94-100, entered by a second call: it goes as far as its
\* first await
StartSecondRun ==
    /\ state' = "downloading"
    /\ error' = None
    /\ IF db.exists
       THEN progress' = Some(0) /\ pc2' = "cleanup_db"
       ELSE IF zip # "absent"
       THEN progress' = Some(0) /\ pc2' = "cleanup_zip"
       ELSE progress' = Some(25) /\ pc2' = "download"

\* async_install, lines 130-149, called while the first call is parked
SecondTrigger ==
    /\ pc \notin Quiet
    /\ pc2 = "none"
    /\ StartSecondRun
    /\ UNCHANGED <<epoch, metadata, metaFile, zip, db, pc, attempt, outcomes,
                   delays, done, saved, raised, errFrom, started, clock,
                   seen, backendVars, otherVars>>

\* a dataset is live when sensors and a second caller exist
InitLive ==
    /\ Init
    /\ db = OldStore

NextConcurrent ==
    \/ Trigger
    \/ CleanupDb
    \/ CleanupZip
    \/ DownloadAttempt
    \/ RetryAfterSleep
    \/ ConvertOpen
    \/ ConvertFeed
    \/ Validate
    \/ Finish
    \/ ReadStore
    \/ SecondTrigger

SpecConcurrent == InitLive /\ [][NextConcurrent]_vars

----------------------------------------------------------------------------
(* _create_indexes, lines 214-239, inside the executor job of               *)
(* _convert_to_sqlite: update_data is parked at the await of line 111, the  *)
(* store is open, and any of the index statements may fail.                 *)

\* the CREATE INDEX statements of lines 216-226, by position
NumIndexes == 9

\* (variant: the first statement that fails ends the loop with its error)
RECURSIVE IndexLoop_AbortOnFailure(_, _, _)
IndexLoop_AbortOnFailure(i, failing, acc) ==
    IF i > NumIndexes THEN acc
    ELSE IF i \in failing
    THEN [acc EXCEPT !.tried = @ \cup {i}, !.failed = @ \cup {i},
                     !.raised = TRUE]
    ELSE IndexLoop_AbortOnFailure(i + 1, failing,
             [acc EXCEPT !.tried = @ \cup {i}, !.created = @ \cup {i}])

\* the for loop of lines 231-236 from statement i on: a statement that
\* raises is logged and the loop goes on
RECURSIVE IndexLoop(_, _, _)
IndexLoop(i, failing, acc) ==
    IF i > NumIndexes THEN acc
    ELSE IF i \in failing
    THEN IndexLoop(i + 1, failing,
             [acc EXCEPT !.tried = @ \cup {i}, !.failed = @ \cup {i}])
    ELSE IndexLoop(i + 1, failing,
             [acc EXCEPT !.tried = @ \cup {i}, !.created = @ \cup {i}])

\* _convert, lines 202-209, with the index statements in failing raising;
\* then update_data lines 113-116
ConvertFeedAndIndex ==
    /\ pc = "convert_feed"
    /\ \/ \E r \in FeedResults, failing \in SUBSET (1..NumIndexes) :
            LET res == IndexLoop(1, failing, NoIndexes)
            IN  /\ db' = r
                /\ indexes' = res
                /\ IF res.raised
                   THEN /\ ExceptHandler(Exc("Exception", "index failed", 0))
                        /\ UNCHANGED done
                   ELSE /\ state' = "validating"
                        /\ progress' = Some(90)
                        /\ done' = done \cup {"convert"}
                        /\ pc' = "validate"
                        /\ UNCHANGED <<error, raised, errFrom>>
       \/ \E w \in FeedWrecks :
            /\ db' = w
            /\ ExceptHandler(Exc("Exception", "feed conversion failed", 0))
            /\ UNCHANGED <<done, indexes>>
    /\ UNCHANGED <<epoch, metadata, metaFile, zip, attempt, outcomes, delays,
                   saved, started, clock>>
    /\ UNCHANGED <<readerVars, backendVars, snapVars>>

InitIndexes ==
    /\ epoch = 0
    /\ state = "converting"
    /\ progress = Some(50)
    /\ error = None
    /\ metaFile \in {NoMetaFile, MetaFileOf(OldJson)}
    /\ metadata = LoadMetadata(metaFile)
    /\ zip = "complete"
    /\ db = SchemaOnly
    /\ pc = "convert_feed"
    /\ attempt = 0
    /\ outcomes = <<"ok">>
    /\ delays = <<>>
    /\ done = {"cleanup", "download"}
    /\ saved = "none"
    /\ raised = None
    /\ errFrom = {}
    /\ started = 0
    /\ clock = 0
    /\ NoReader
    /\ NoBackend

NextIndexes ==
    \/ ConvertFeedAndIndex
    \/ Validate

SpecIndexes == InitIndexes /\ [][NextIndexes]_vars

----------------------------------------------------------------------------
(* Status reads, gtfs_data.py lines 53-59. A dict a caller holds is either  *)
(* an object of its own or the manager's dict itself; what the caller reads *)
(* through it, and what a write through it changes, follows from which.     *)

\* (variant: the dict itself is handed out)
DictCopy_SameObject(d) == [kind |-> "same", value |-> d]

\* dict.copy(): a new dict with the same items
DictCopy(d) == [kind |-> "copy", value |-> d]

\* what the caller reads in the dict it holds
StateRead == IF stateSnap.kind = "same" THEN GetState ELSE stateSnap.value
MetaRead == IF metaSnap.kind = "same" THEN GetMetadata ELSE metaSnap.value

\* get_metadata() and get_state() as extra_state_attributes calls them, one
\* after the other with no await between (update.py lines 105-106)
ReadStatus ==
    /\ stateSnap.kind = "none"
    /\ stateSnap' = DictCopy(GetState)
    /\ metaSnap' = DictCopy(GetMetadata)
    /\ UNCHANGED <<pipelineVars, seen, pc2, backendVars, indexes>>

\* the caller assigns to the "state" key of the one dict and to the
\* "db_size_mb" key of the other
MutateSnaps ==
    /\ stateSnap.kind # "none"
    /\ StateRead.state # "tampered"
    /\ IF stateSnap.kind = "same"
       THEN state' = "tampered" /\ UNCHANGED stateSnap
       ELSE /\ stateSnap' = [stateSnap EXCEPT !.value.state = "tampered"]
            /\ UNCHANGED state
    /\ IF metaSnap.kind = "same"
       THEN /\ metadata' = [metadata EXCEPT !.db_size_mb = Some(0)]
            /\ UNCHANGED metaSnap
       ELSE /\ metaSnap' = [metaSnap EXCEPT !.value.db_size_mb = Some(0)]
            /\ UNCHANGED metadata
    /\ UNCHANGED <<epoch, progress, error, metaFile, zip, db, pc, attempt,
                   outcomes, delays, done, saved, raised, errFrom, started,
                   clock, seen, pc2, backendVars, indexes>>

\* one manager over a live store, its status read while runs go on
InitSnapshots ==
    /\ InitLive
    /\ metaFile = MetaFileOf(OldJson)
    /\ zip = "absent"

NextSnapshots ==
    \/ Trigger
    \/ CleanupDb
    \/ CleanupZip
    \/ DownloadAttempt
    \/ RetryAfterSleep
    \/ ConvertOpen
    \/ ConvertFeed
    \/ Validate
    \/ Finish
    \/ ReadStatus
    \/ MutateSnaps

SpecSnapshots == InitSnapshots /\ [][NextSnapshots]_vars

----------------------------------------------------------------------------
(* GTFSBackend (gtfs_backend.py) over a live store. A date is a day number, *)
(* a time of day is minutes after midnight; the text 'YYYY-MM-DD HH:MM:SS'  *)
(* is the record [date, time], which orders as the text does. pygtfs keeps  *)
(* stop_times.departure_time as an interval from 1970-01-01 00:00:00, held  *)
(* here as minutes: 25:30:00 is 1530, stored as '1970-01-02 01:30:00'.      *)

MaxRows == 3        \* stop_times rows in the store
MaxResolves == 2    \* set_stop_info calls

MinutesPerDay == 1440

OtherRoute == "9011012000500000"

\* trips: trip_id -> route_id, direction_id, service_id
Trips ==
    [ t1 |-> [route |-> HardcodedRoute, direction |-> 1, service |-> "wk"],
      t2 |-> [route |-> HardcodedRoute, direction |-> 1, service |-> "sat"],
      t3 |-> [route |-> HardcodedRoute, direction |-> 0, service |-> "wk"],
      t4 |-> [route |-> OtherRoute, direction |-> 1, service |-> "wk"] ]

\* routes: route_id -> route_short_name, agency_id (the long name, the
\* description and the type go with the route id as the short name does)
RoutesTable ==
    [ r \in {HardcodedRoute, OtherRoute} |->
        IF r = HardcodedRoute
        THEN [short_name |-> "16", agency_id |-> "276"]
        ELSE [short_name |-> "5", agency_id |-> "276"] ]

\* agency: agency_id -> agency_name, agency_timezone (the url goes with them)
AgencyTable ==
    [ a \in {"276"} |-> [name |-> "Skanetrafiken",
                         timezone |-> "Europe/Stockholm"] ]

\* stops: stop_id -> stop_name (the other stop columns go with it)
StopsTable ==
    [ x \in {"S", "X"} |-> IF x = "S" THEN [name |-> "Lund C"]
                                      ELSE [name |-> "Malmo C"] ]

Row(trip, at, dep, headsign) ==
    [trip |-> trip, stop |-> at, dep |-> dep, headsign |-> headsign]

\* stop_times rows a store may hold: times at 00:00, 01:30, 12:00, 23:30,
\* 24:00, 25:30 and 49:00
RowUniverse ==
    { Row("t1", "S", 0, "Lund"),
      Row("t1", "S", 1530, "Lund"),
      Row("t2", "S", 90, "Lund"),
      Row("t2", "S", 1410, "Malmo"),
      Row("t2", "S", 2940, "Lund"),
      Row("t1", "S", 720, "Malmo"),
      Row("t2", "S", 1440, "Lund"),
      Row("t3", "S", 720, "Lund"),
      Row("t4", "S", 720, "Lund"),
      Row("t1", "X", 720, "Lund") }

\* calendar_dates a store may hold, around day 10
CalendarSamples ==
    { { <<"wk", 9>>, <<"wk", 10>>, <<"wk", 11>>, <<"wk", 12>> },
      { <<"wk", 9>>, <<"sat", 10>>, <<"wk", 11>> },
      { <<"wk", 10>>, <<"sat", 10>> },
      { <<"sat", 8>>, <<"wk", 12>> } }

\* moments the query is made at: day 10 at 00:10, 01:30, 12:00, 22:10 UTC
NowSamples == { 14410, 14490, 15120, 15730 }

TzOffsets == { 0, 120 }

\* date('now')
UtcDate == utcNow \div MinutesPerDay

\* datetime('now', 'localtime')
LocalNow ==
    [date |-> (utcNow + tzOffset) \div MinutesPerDay,
     time |-> (utcNow + tzOffset) % MinutesPerDay]

\* date(st.departure_time) = '1970-01-01'
OnEpochDay(dep) == dep \div MinutesPerDay = 0

\* time(st.departure_time)
TimeOf(dep) == dep % MinutesPerDay

\* (variant: the date is the service date whatever the interval)
CorrectDepartureDateTime_NoRollover(serviceDate, dep) ==
    [date |-> serviceDate, time |-> TimeOf(dep)]

\* (variant: only an interval of exactly one day moves the date)
CorrectDepartureDateTime_OnlyOneDay(serviceDate, dep) ==
    [date |-> IF dep \div MinutesPerDay = 1 THEN serviceDate + 1
                                            ELSE serviceDate,
     time |-> TimeOf(dep)]

\* the CASE expression of lines 44-47, 58-61 and 72-75 for the window of
\* service date serviceDate
CorrectDepartureDateTime(serviceDate, dep) ==
    [date |-> IF OnEpochDay(dep) THEN serviceDate ELSE serviceDate + 1,
     time |-> TimeOf(dep)]

\* the FROM and WHERE of one SELECT of baseData, lines 49-55
WindowRows(route, serviceDate) ==
    { x \in stopTimes :
        /\ x.stop \in DOMAIN StopsTable
        /\ Trips[x.trip].route = route
        /\ x.stop = stopId
        /\ Trips[x.trip].direction = 1
        /\ <<Trips[x.trip].service, serviceDate>> \in calendarDates }

Window(route, serviceDate) ==
    { [dateTime |-> CorrectDepartureDateTime(serviceDate, x.dep),
       headsign |-> x.headsign] : x \in WindowRows(route, serviceDate) }

\* the three SELECTs under UNION, lines 43-83: a set, duplicates are one row
BaseData(route) ==
    Window(route, UtcDate - 1) \cup Window(route, UtcDate)
        \cup Window(route, UtcDate + 1)

\* text comparison of two 'YYYY-MM-DD HH:MM:SS'
Later(a, b) ==
    \/ a.date > b.date
    \/ a.date = b.date /\ a.time > b.time

HeadsignRank(h) == IF h = "Lund" THEN 1 ELSE 2

\* ORDER BY correctDepartureDateTime ASC over a UNION: the merge orders the
\* rows by that column and then by the remaining one
RowBefore(a, b) ==
    \/ Later(b.dateTime, a.dateTime)
    \/ a.dateTime = b.dateTime /\ HeadsignRank(a.headsign) <= HeadsignRank(b.headsign)

RECURSIVE Ordered(_)
Ordered(rows) ==
    IF rows = {} THEN <<>>
    ELSE LET first == CHOOSE a \in rows : \A b \in rows : RowBefore(a, b)
         IN  <<first>> \o Ordered(rows \ {first})

\* (variant: a departure at the very moment of the query is kept)
AfterNow_OrEqual(row) ==
    Later(row.dateTime, LocalNow) \/ row.dateTime = LocalNow

\* WHERE correctDepartureDateTime > datetime('now', 'localtime'), line 91
AfterNow(row) == Later(row.dateTime, LocalNow)

Limit == 3

FirstRows(seq, n) == SubSeq(seq, 1, IF Len(seq) < n THEN Len(seq) ELSE n)

\* lines 86-92 and 106: the rows cursor.fetchall() returns
FetchDepartures(route) ==
    FirstRows(SelectSeq(Ordered(BaseData(route)), AfterNow), Limit)

\* lines 108-114: one dict per row
DepartureDict(row) ==
    [dateTime |-> row.dateTime, time |-> row.dateTime.time,
     headsign |-> row.headsign]

\* (variant: whatever rows there are, are returned)
NextDepartures_Partial(rows) ==
    Some([ i \in 1..Len(rows) |-> DepartureDict(rows[i]) ])

\* lines 116-123: all three or None; the dict is held as the sequence of its
\* nextDeparture, secondDeparture and thirdDeparture
NextDepartures(rows) ==
    IF Len(rows) < 3 THEN None
    ELSE Some(<<DepartureDict(rows[1]), DepartureDict(rows[2]),
                DepartureDict(rows[3])>>)

\* get_next_departure(), lines 39-125: it takes no argument, the route is the
\* one of line 102 and the direction the one of line 54
GetNextDeparture ==
    /\ departures' = NextDepartures(FetchDepartures(HardcodedRoute))
    /\ queried' = TRUE
    /\ UNCHANGED <<pipelineVars, readerVars, otherVars, stopTimes,
                   calendarDates, utcNow,
                   tzOffset, stopId, wanted, stop, routes, activeRoutes,
                   resolved>>

\* one row of the join of lines 148-153, the columns of a Route
RouteRow(x) ==
    LET t == Trips[x.trip]
        r == RoutesTable[t.route]
    IN  [id |-> t.route, short_name |-> r.short_name,
         direction |-> t.direction, agency_id |-> r.agency_id,
         agency_name |-> AgencyTable[r.agency_id].name,
         headsign |-> x.headsign]

\* the joined stop_times rows of the stop, lines 148-153
JoinedRows ==
    { x \in stopTimes :
        /\ x.stop \in DOMAIN StopsTable
        /\ x.stop = stopId
        /\ Trips[x.trip].route \in DOMAIN RoutesTable
        /\ RoutesTable[Trips[x.trip].route].agency_id \in DOMAIN AgencyTable }

RouteBefore(a, b) ==
    \/ a.id = HardcodedRoute /\ b.id # HardcodedRoute
    \/ a.id = b.id /\ a.direction < b.direction
    \/ a.id = b.id /\ a.direction = b.direction
          /\ HeadsignRank(a.headsign) <= HeadsignRank(b.headsign)

RECURSIVE OrderedRoutes(_)
OrderedRoutes(rs) ==
    IF rs = {} THEN <<>>
    ELSE LET first == CHOOSE a \in rs : \A b \in rs : RouteBefore(a, b)
         IN  <<first>> \o OrderedRoutes(rs \ {first})

RECURSIVE OrderedStopTimes(_)
OrderedStopTimes(xs) ==
    IF xs = {} THEN <<>>
    ELSE LET first == CHOOSE a \in xs :
                        \A b \in xs : RouteBefore(RouteRow(a), RouteRow(b))
         IN  <<first>> \o OrderedStopTimes(xs \ {first})

\* (variant: no GROUP BY, one row per joined stop_times row)
StopRows_Ungrouped ==
    LET xs == OrderedStopTimes(JoinedRows)
    IN  [ i \in 1..Len(xs) |-> RouteRow(xs[i]) ]

\* lines 129-175: GROUP BY over every selected column leaves one row per
\* distinct tuple
StopRows == OrderedRoutes({ RouteRow(x) : x \in JoinedRows })

\* set_stop_info(), lines 128-224
SetStopInfo ==
    /\ resolved < MaxResolves
    /\ resolved' = resolved + 1
    /\ IF Len(StopRows) = 0
       THEN /\ routes' = <<>>
            /\ stop' = None
            /\ UNCHANGED activeRoutes
       ELSE /\ activeRoutes' =
                  activeRoutes \o [ i \in 1..Len(StopRows) |-> StopRows[i].id ]
            /\ routes' = routes \o StopRows
            /\ stop' = Some([id |-> stopId, name |-> StopsTable[stopId].name,
                             timezone |->
                               AgencyTable[StopRows[1].agency_id].timezone])
    /\ UNCHANGED <<pipelineVars, readerVars, otherVars, stopTimes,
                   calendarDates, utcNow,
                   tzOffset, stopId, wanted, queried, departures>>

\* get_stop(), lines 226-227: the Stop holds the _routes list itself
GetStop ==
    IF stop = None THEN None
    ELSE Some([id |-> stop[1].id, name |-> stop[1].name,
               timezone |-> stop[1].timezone, routes |-> routes])

\* get_routes(), lines 229-230
GetRoutes == routes

\* a sensor's backend, just constructed over a live store
InitBackend ==
    /\ PipelineInit
    /\ metaFile = MetaFileOf(OldJson)
    /\ zip = "absent"
    /\ db = OldStore
    /\ NoReader
    /\ stopTimes \in { rs \in SUBSET RowUniverse : Cardinality(rs) <= MaxRows }
    /\ calendarDates \in CalendarSamples
    /\ utcNow \in NowSamples
    /\ tzOffset \in TzOffsets
    /\ stopId \in {"S", "nowhere"}
    /\ wanted \in { [route |-> HardcodedRoute, direction |-> 1],
                    [route |-> OtherRoute, direction |-> 1],
                    [route |-> HardcodedRoute, direction |-> 0] }
    /\ BackendFresh

NextBackend ==
    \/ GetNextDeparture
    \/ SetStopInfo

SpecBackend == InitBackend /\ [][NextBackend]_vars

----------------------------------------------------------------------------
(* Properties *)

AllPhases == {"cleanup", "download", "convert", "validate"}

WorkingStates == {"downloading", "converting", "validating"}

\* the clock reading a datetime was taken at
ClockOf(dt) == dt.sec * 2 + dt.usec \div 500000

\* every download attempt of the current run failed
Exhausted ==
    /\ Len(outcomes) = MAX_DOWNLOAD_RETRIES
    /\ \A i \in 1..Len(outcomes) : outcomes[i] # "ok"

AllowedTransitions ==
    { <<"idle", "downloading">>, <<"error", "downloading">>,
      <<"downloading", "converting">>, <<"converting", "validating">>,
      <<"validating", "idle">>,
      <<"downloading", "error">>, <<"converting", "error">>,
      <<"validating", "error">> }

\* C1: within one manager, every change of the lifecycle state is a step of
\* idle -> downloading -> converting -> validating -> idle, or leaves a
\* working state for error, or leaves error for the downloading of a new run;
\* so converting and validating are never entered from error or idle.
C1_LifecycleOrder ==
    [][(epoch' = epoch /\ state' # state)
         => <<state, state'>> \in AllowedTransitions]_vars

\* C1 witness: error was entered from each of the three working states, and a
\* later run went all the way back to idle.
C1_Witness ==
    /\ errFrom = WorkingStates
    /\ state = "idle"
    /\ pc = "returned"

\* C2: when update_data has raised, the state is error, error is the message
\* (str) of the exception that escaped, and progress is None.
C2_RaiseSetsError ==
    pc = "raised" =>
        /\ raised # None
        /\ state = "error"
        /\ error = Some(Str(raised[1]))
        /\ progress = None

\* C2 witness: the bookkeeping after a passed validation raised.
C2_Witness ==
    /\ pc = "raised"
    /\ done = AllPhases
    /\ raised = Some(Exc("OSError", "unlink zip", 0))

\* C3 (as claimed): after _download_with_retry gave up, the zip is not there.
C3_NoZipAfterExhaustion ==
    (pc = "raised" /\ raised = Some(DownloadExhausted)) => zip = "absent"

\* C4 (as claimed): after download_gtfs_data failed, the destination is not
\* there.
C4_NoDestinationAfterFailedFetch ==
    pc = "fetch_failed" => zip = "absent"

\* C5: a run makes at most MAX_DOWNLOAD_RETRIES attempts, only the last of
\* them can be the successful one, and the sleeps made so far are, in order,
\* RETRY_DELAYS[0], RETRY_DELAYS[1], ...: one after each failed attempt that
\* is retried.
C5_RetrySchedule ==
    /\ Len(outcomes) <= MAX_DOWNLOAD_RETRIES
    /\ \A i \in 1..Len(outcomes) - 1 : outcomes[i] # "ok"
    /\ Len(delays) = IF pc \in {"download", "sleep"} \/ outcomes = <<>>
                     THEN Len(outcomes)
                     ELSE Len(outcomes) - 1
    /\ \A i \in 1..Len(delays) : delays[i] = RETRY_DELAYS[i]

\* C5 witness: two failures, two sleeps of 5 and 15 seconds, then success.
C5_Witness ==
    /\ Len(outcomes) = 3
    /\ outcomes[3] = "ok"
    /\ delays = <<5, 15>>
    /\ pc = "convert"

\* C6: once every attempt of a run has failed, the run has ended in error with
\* the exhaustion error, which carries the number of attempts made; no phase
\* after cleanup has run and no store was created.
C6_ExhaustionIsTerminal ==
    Exhausted =>
        /\ pc \in {"raised", "fetch_stream", "fetch_ok", "fetch_failed"}
        /\ state = "error"
        /\ error = Some(Str(DownloadExhausted))
        /\ error[1].n = Len(outcomes)
        /\ done = {"cleanup"}
        /\ ~DatabaseExists

\* C6 witness: the third attempt has just failed.
C6_Witness ==
    /\ Exhausted
    /\ pc = "raised"

\* C7: after update_data returned, the state is idle, the zip is gone, the
\* store exists, and the in-memory metadata holds a timestamp taken during the
\* run and the tenth of a MB nearest to the store's size.
C7_SuccessPostcondition ==
    pc = "returned" =>
        /\ state = "idle"
        /\ zip = "absent"
        /\ DatabaseExists
        /\ GetMetadata.last_download # None
        /\ started <= ClockOf(GetMetadata.last_download[1])
        /\ ClockOf(GetMetadata.last_download[1]) <= clock
        /\ GetMetadata.db_size_mb # None
        /\ LET t == GetMetadata.db_size_mb[1]
               d == db.size * 10 - t * BytesPerMB
           IN  2 * d <= BytesPerMB /\ 2 * d >= 0 - BytesPerMB

\* C7 witness: a run that started after the clock moved returned, with a store
\* of 0.75 MB recorded as 0.8.
C7_Witness ==
    /\ pc = "returned"
    /\ started > 0
    /\ db.size = 786432
    /\ metadata.db_size_mb = Some(8)

\* C8 (as claimed): after update_data returned, get_state() reports idle and
\* progress None.
C8_EndsWithProgressNone ==
    pc = "returned" =>
        /\ GetState.state = "idle"
        /\ GetState.progress = None

\* C8 (amended): after update_data returned, get_state() reports idle and
\* progress 100, and by then the metadata save was attempted and the zip is
\* gone; while the state is idle the progress is None (no run since
\* construction) or 100.
C8_EndsWithProgress100 ==
    /\ pc = "returned" =>
        /\ GetState.state = "idle"
        /\ GetState.progress = Some(100)
        /\ saved # "none"
        /\ zip = "absent"
    /\ state = "idle" => progress \in {None, Some(100)}

\* C8 witness: a run has returned.
C8_Witness ==
    /\ pc = "returned"
    /\ progress = Some(100)

\* C9: within one manager, the in-memory metadata and metadata.json change
\* only in a step taken after cleanup, download, conversion and validation of
\* the current run all succeeded.
C9_MetadataOnlyAfterAllPhases ==
    [][(epoch' = epoch /\ (metadata' # metadata \/ metaFile' # metaFile))
         => done = AllPhases]_vars

\* C9 witness: a run wrote metadata.json.
C9_Witness ==
    /\ saved = "written"
    /\ done = AllPhases
    /\ metaFile = MetaFileOf(ToJson(metadata))

\* C10 (as claimed): after every run that returned, loading metadata.json
\* gives the metadata the run recorded.
C10_MetadataSurvivesRestart ==
    pc = "returned" => LoadMetadata(metaFile) = metadata

\* C10, the part that holds: after a run that returned and whose
\* _save_metadata wrote the file, loading metadata.json gives the timestamp and
\* size the run recorded.
C10_WrittenMetadataSurvivesRestart ==
    (pc = "returned" /\ saved = "written") =>
        /\ metadata.last_download # None
        /\ metadata.db_size_mb # None
        /\ LoadMetadata(metaFile) = metadata

\* A written record whose timestamp has a microsecond part.
C10_WrittenWithMicroseconds ==
    /\ pc = "returned"
    /\ saved = "written"
    /\ metadata.last_download # None
    /\ metadata.last_download[1].usec # 0

\* C11 (as claimed): a store that passes validation stays as it is until a
\* store that passes validation takes its place; no step deletes it or puts
\* an unvalidated store there.
C11_OldStoreKeptUntilReplaced ==
    [][ValidationError(db) = None
          => (db' = db \/ ValidationError(db') = None)]_vars

\* C12 (as claimed): after a run ended in error, a store that is on disk
\* passes validation.
C12_NoInvalidStoreAfterError ==
    (pc = "raised" /\ DatabaseExists) => ValidationError(db) = None

\* C13 (as claimed): whenever a query opens the store, with or without a run
\* in flight, it finds a complete store, never a missing or half-written one.
C13_ReaderSeesCompleteStore == seen \in {"none", "complete"}

\* C14 (as claimed): while a run is in flight no second run starts.
C14_NoOverlappingRun == pc \notin Quiet => pc2 = "none"

\* the three conditions of the claim, read off the store
StoreIsSound(d) ==
    /\ d.exists
    /\ \A t \in RequiredTables : t \in d.tables /\ t \in d.nonempty

\* C15: once _validate_data has run, it has returned without raising exactly
\* when the file exists and each of the six required tables exists and has a
\* row; when it raised, the run is in state error with the raised message and
\* neither the metadata in memory nor metadata.json was touched.
C15_ValidatorIff ==
    pc # "validate" =>
        /\ ("validate" \in done) <=> StoreIsSound(db)
        /\ "validate" \notin done =>
              /\ pc = "raised"
              /\ state = "error"
              /\ raised # None
              /\ error = Some(Str(raised[1]))
              /\ saved = "none"
              /\ metadata = LoadMetadata(metaFile)
              /\ metaFile \in {NoMetaFile, MetaFileOf(OldJson)}

\* a store with all six tables, one of them without rows, was refused
C15_Witness ==
    /\ pc = "raised"
    /\ "validate" \notin done
    /\ db.exists
    /\ db.tables = RequiredTables
    /\ db.nonempty = RequiredTables \ {"stop_times"}
    /\ raised[1].text = "Table is empty"

\* what get_next_departure returned, as a set
Returned == { departures[1][i] : i \in 1..Len(departures[1]) }

\* the service dates the query evaluates: yesterday, today and tomorrow of
\* date('now')
ServiceDates == { UtcDate - 1, UtcDate, UtcDate + 1 }

\* the moment a stop time of a trip of service date s is at, by the calendar
TrueDateTime(s, dep) ==
    [date |-> (s * MinutesPerDay + dep) \div MinutesPerDay,
     time |-> (s * MinutesPerDay + dep) % MinutesPerDay]

\* the candidate departures that are strictly after the moment of the query
Qualifying ==
    { c \in BaseData(HardcodedRoute) : Later(c.dateTime, LocalNow) }

\* C16: a returned departure stems from a stop time of a trip active on one
\* of the three service dates S, and when that time is below 48:00 it is
\* dated as the calendar has it: S itself below 24:00 (00:00:00 included),
\* S+1 at the time less 24 hours from 24:00 on; and such a stop time that is
\* after now and before the third returned departure is among the three.
C16_DateAttribution ==
    (queried /\ departures # None) =>
        /\ \A d \in Returned :
              \E s \in ServiceDates :
                \E x \in WindowRows(HardcodedRoute, s) :
                    /\ d.headsign = x.headsign
                    /\ d.time = TimeOf(x.dep)
                    /\ x.dep < 2 * MinutesPerDay
                          => d.dateTime = TrueDateTime(s, x.dep)
        /\ \A s \in ServiceDates :
              \A x \in WindowRows(HardcodedRoute, s) :
                  ( /\ x.dep < 2 * MinutesPerDay
                    /\ Later(TrueDateTime(s, x.dep), LocalNow)
                    /\ Later(departures[1][3].dateTime,
                             TrueDateTime(s, x.dep)) )
                  => \E d \in Returned :
                        /\ d.dateTime = TrueDateTime(s, x.dep)
                        /\ d.headsign = x.headsign

\* the only stop time is 25:30:00 and the first departure returned is today's
\* 01:30, of yesterday's service
C16_Witness ==
    /\ queried
    /\ departures # None
    /\ stopTimes = { Row("t1", "S", 1530, "Lund") }
    /\ departures[1][1].dateTime = [date |-> UtcDate, time |-> 90]
    /\ <<"wk", UtcDate - 1>> \in calendarDates

\* C17: when fewer than three departures qualify the answer is None, and an
\* answer that is not None has all three.
C17_AllOrNothing ==
    queried =>
        /\ Cardinality(Qualifying) < Limit => departures = None
        /\ departures # None => Len(departures[1]) = Limit

\* one or two departures qualified and None was returned
C17_Witness ==
    /\ queried
    /\ departures = None
    /\ Cardinality(Qualifying) \in {1, 2}

\* C18: when at least three candidates are strictly after now, the answer is
\* three of them, distinct, in ascending order of date-time, none later than
\* a candidate left out; a candidate at the very moment of the query is not
\* among them.
C18_EarliestThree ==
    (queried /\ Cardinality(Qualifying) >= Limit) =>
        /\ departures # None
        /\ Len(departures[1]) = Limit
        /\ \A i \in 1..Limit :
              /\ [dateTime |-> departures[1][i].dateTime,
                  headsign |-> departures[1][i].headsign]
                    \in BaseData(HardcodedRoute)
              /\ Later(departures[1][i].dateTime, LocalNow)
              /\ departures[1][i].time = departures[1][i].dateTime.time
        /\ \A i \in 1..(Limit - 1) :
              /\ ~Later(departures[1][i].dateTime,
                        departures[1][i + 1].dateTime)
              /\ departures[1][i] # departures[1][i + 1]
        /\ departures[1][1] # departures[1][3]
        /\ \A c \in Qualifying :
              DepartureDict(c) \notin Returned
                  => ~Later(departures[1][3].dateTime, c.dateTime)

\* more than three qualified, and a candidate at the moment of the query
\* was left out
C18_Witness ==
    /\ queried
    /\ departures # None
    /\ Cardinality(Qualifying) > Limit
    /\ \E c \in BaseData(HardcodedRoute) : c.dateTime = LocalNow

\* C19 (as claimed): every returned departure is a stop time, at the stop, of
\* a trip on the route and in the direction the caller wants, whose service
\* runs on the evaluated date.
C19_DeparturesOfWantedRoute ==
    (queried /\ departures # None) =>
        \A d \in Returned :
            \E s \in ServiceDates :
                \E x \in stopTimes :
                    /\ Trips[x.trip].route = wanted.route
                    /\ Trips[x.trip].direction = wanted.direction
                    /\ x.stop = stopId
                    /\ <<Trips[x.trip].service, s>> \in calendarDates
                    /\ d.dateTime = CorrectDepartureDateTime(s, x.dep)
                    /\ d.headsign = x.headsign

\* C20: after the first set_stop_info call of a backend, the routes are the
\* distinct (route, direction, headsign) tuples of the stop times at the
\* stop, each once.
C20_OneEntryPerTuple ==
    resolved = 1 =>
        /\ { routes[i] : i \in 1..Len(routes) }
              = { RouteRow(x) : x \in { y \in stopTimes : y.stop = stopId } }
        /\ \A i, j \in 1..Len(routes) :
              ( /\ routes[i].id = routes[j].id
                /\ routes[i].direction = routes[j].direction
                /\ routes[i].headsign = routes[j].headsign ) => i = j

\* two trips of one route, direction and headsign and a trip of the other
\* direction stop there: two entries
C20_Witness ==
    /\ resolved = 1
    /\ stopId = "S"
    /\ stopTimes = { Row("t1", "S", 0, "Lund"), Row("t2", "S", 90, "Lund"),
                     Row("t3", "S", 720, "Lund") }
    /\ Len(routes) = 2

\* C21 (as claimed): after any number of set_stop_info calls, get_routes()
\* lists each distinct (route, direction, headsign) of the stop times at the
\* stop exactly once, the list is empty and get_stop() is None when there are
\* none, and get_stop() carries that same list.
C21_LatestResolutionOnly ==
    resolved >= 1 =>
        LET expected == { RouteRow(x) : x \in { y \in stopTimes : y.stop = stopId } }
        IN  /\ { GetRoutes[i] : i \in 1..Len(GetRoutes) } = expected
            /\ Len(GetRoutes) = Cardinality(expected)
            /\ (expected = {}) <=> (GetStop = None)
            /\ GetStop # None => GetStop[1].routes = GetRoutes

\* C22: a write through a dict that get_state or get_metadata returned leaves
\* the manager's state and metadata as they are, and what a caller reads in a
\* dict it holds changes only by the caller's own writes, whatever the run
\* does meanwhile.
C22_SnapshotsAreCopies ==
    [][ /\ MutateSnaps => UNCHANGED <<state, progress, error, metadata>>
        /\ (stateSnap.kind # "none" /\ ~MutateSnaps)
              => (StateRead' = StateRead /\ MetaRead' = MetaRead) ]_vars

\* both dicts were taken when the run had just started and were written to
\* by the caller; the run has ended since, and the manager's state and
\* metadata are those of its end
C22_Witness ==
    /\ stateSnap.kind = "copy"
    /\ stateSnap.value.state = "tampered"
    /\ stateSnap.value.progress = Some(0)
    /\ state = "idle"
    /\ progress = Some(100)
    /\ metaSnap.kind = "copy"
    /\ metaSnap.value.db_size_mb = Some(0)
    /\ metaSnap.value.last_download # None
    /\ metadata.db_size_mb = Some(8)

\* C23: when the first download attempt of a run is about to start, the
\* state is downloading at progress 25, cleanup has returned and neither the
\* database nor the zip is at its path; and a run that ended in error before
\* cleanup returned still has the file whose unlink failed, so cleanup over
\* absent files does not fail.
C23_CleanupBeforeFetch ==
    /\ (pc = "download" /\ outcomes = <<>>) =>
          /\ state = "downloading"
          /\ progress = Some(25)
          /\ "cleanup" \in done
          /\ ~DatabaseExists
          /\ zip = "absent"
    /\ (pc = "raised" /\ "cleanup" \notin done) =>
          (DatabaseExists \/ zip # "absent")

\* a second run of the same manager is about to download: the store the
\* first run installed is gone
C23_Witness ==
    /\ pc = "download"
    /\ outcomes = <<>>
    /\ metadata.db_size_mb = Some(8)
    /\ saved = "none"
    /\ db = NoDb

\* C24: once append_feed has returned, whichever index statements failed,
\* all nine were attempted, the others were created, _create_indexes did not
\* raise and the run went on to validation.
C24_IndexFailuresSkipped ==
    pc # "convert_feed" =>
        /\ (indexes.tried # {} \/ "convert" \in done) =>
              /\ indexes.tried = 1..NumIndexes
              /\ indexes.created = indexes.tried \ indexes.failed
              /\ ~indexes.raised
              /\ "convert" \in done
        /\ (pc = "raised" /\ "convert" \notin done) =>
              raised[1].text = "feed conversion failed"

\* all nine statements failed and the run is at validation
C24_Witness ==
    /\ pc = "validate"
    /\ state = "validating"
    /\ indexes.failed = 1..NumIndexes
    /\ indexes.tried = 1..NumIndexes

\* the date the claim gives a stop time of service date s: the next day when
\* exactly one day has elapsed, s itself otherwise
DateClaimed(s, dep) == IF dep \div MinutesPerDay = 1 THEN s + 1 ELSE s

\* the date the CASE gives it: s itself when no day has elapsed, the next day
\* otherwise, however many days have elapsed
DateAmended(s, dep) == IF dep \div MinutesPerDay = 0 THEN s ELSE s + 1

\* C25 (as claimed): every returned departure is a stop time of a trip active
\* on one of the three service dates, dated on the service date itself
\* unless exactly one day has elapsed.
C25_OtherOffsetsOnServiceDate ==
    (queried /\ departures # None) =>
        \A d \in Returned :
            \E s \in ServiceDates :
                \E x \in WindowRows(HardcodedRoute, s) :
                    /\ d.headsign = x.headsign
                    /\ d.time = TimeOf(x.dep)
                    /\ d.dateTime.date = DateClaimed(s, x.dep)

\* C25 (amended): every returned departure is a stop time of a trip active on
\* one of the three service dates, dated on the service date itself when no
\* day has elapsed and on the next day when one or more have (49:00:00 of
\* service date S is returned as S+1 at 01:00); and every such stop time so
\* dated that is after now and before the third returned is returned.
C25_AnyElapsedDayIsNextDay ==
    (queried /\ departures # None) =>
        /\ \A d \in Returned :
              \E s \in ServiceDates :
                \E x \in WindowRows(HardcodedRoute, s) :
                    /\ d.headsign = x.headsign
                    /\ d.time = TimeOf(x.dep)
                    /\ d.dateTime.date = DateAmended(s, x.dep)
        /\ \A s \in ServiceDates :
              \A x \in WindowRows(HardcodedRoute, s) :
                  LET at == [date |-> DateAmended(s, x.dep),
                             time |-> TimeOf(x.dep)]
                  IN  (Later(at, LocalNow)
                         /\ Later(departures[1][3].dateTime, at))
                      => \E d \in Returned :
                            d.dateTime = at /\ d.headsign = x.headsign

\* a 49:00:00 stop time of a service that runs today and not tomorrow was
\* returned, dated tomorrow at 01:00
C25_Witness ==
    /\ queried
    /\ departures # None
    /\ Row("t2", "S", 2940, "Lund") \in stopTimes
    /\ <<"sat", UtcDate>> \in calendarDates
    /\ <<"sat", UtcDate + 1>> \notin calendarDates
    /\ \E d \in Returned :
          d.dateTime = [date |-> UtcDate + 1, time |-> 60]

\* C26: in every state of a manager whose runs do not overlap, downloading
\* goes with progress 0 or 25, converting with 50, validating with 90, idle
\* with None or 100 and error with None, and the error field is set only in
\* state error.
C26_StateProgressConsistent ==
    /\ state \in {"idle", "downloading", "converting", "validating", "error"}
    /\ state = "downloading" => progress \in {Some(0), Some(25)}
    /\ state = "converting" => progress = Some(50)
    /\ state = "validating" => progress = Some(90)
    /\ state = "idle" => progress \in {None, Some(100)}
    /\ state = "error" => progress = None
    /\ error # None => state = "error"

\* a run that follows a failed one has entered downloading and the error is
\* cleared
C26_Witness ==
    /\ state = "downloading"
    /\ progress = Some(0)
    /\ error = None
    /\ errFrom # {}
    /\ pc \in {"cleanup_db", "cleanup_zip"}

\* C27 (as claimed): the step in which a run ends in error changes neither
\* the metadata in memory nor metadata.json.
C27_ErrorLeavesMetadata ==
    [][(pc # "raised" /\ pc' = "raised")
          => (metadata' = metadata /\ metaFile' = metaFile)]_vars

\* the candidates of the three service dates around the local date of now
LocalBaseData ==
    Window(HardcodedRoute, LocalNow.date - 1)
        \cup Window(HardcodedRoute, LocalNow.date)
        \cup Window(HardcodedRoute, LocalNow.date + 1)

\* C28 (as claimed): the answer is the one that the windows of yesterday,
\* today and tomorrow of the local date of now give.
C28_WindowsFollowLocalNow ==
    queried =>
        departures =
            NextDepartures(FirstRows(
                SelectSeq(Ordered(LocalBaseData),
                          LAMBDA c : Later(c.dateTime, LocalNow)),
                Limit))

====
